---- MODULE Spec2Model ----
(***************************************************************************)
(* A model of bin.src/register-release.py: the registration of the         *)
(* datasets of a Butler collection into Rucio.  One process runs the       *)
(* script from top to bottom; several processes (shards) may run it        *)
(* against the same Rucio server with different --njobs/--jobnum.          *)
(*                                                                         *)
(* A step of a process is one remote call (or one invocation of a call     *)
(* wrapped in retry) together with the local code that follows it up to    *)
(* the next remote call.                                                   *)
(***************************************************************************)
EXTENDS Integers, Sequences, FiniteSets, TLC

(***************************************************************************)
(* Bounds of the model.                                                    *)
(***************************************************************************)
MaxRefs == 3
MaxJobs == 2
MaxShards == 2
MaxBlips == 1
MaxLen == 3
MaxChunk == 3
MaxExtra == 1

\* The corrections of a corrections file.
MaxCorrections == 2

(***************************************************************************)
(* Python values.                                                          *)
(***************************************************************************)
\* None, for the optional integers --njobs and --jobnum (argparse default).
None == -1

\* bool(x) of an optional integer: None and 0 are falsy.
Truthy(x) == x # None /\ x # 0

(***************************************************************************)
(* Strings: str.endswith, str.startswith, "sub in s", str.removesuffix.    *)
(***************************************************************************)
endswith(s, suffix) ==
    /\ Len(s) >= Len(suffix)
    /\ SubSeq(s, Len(s) - Len(suffix) + 1, Len(s)) = suffix

startswith(s, prefix) ==
    /\ Len(s) >= Len(prefix)
    /\ SubSeq(s, 1, Len(prefix)) = prefix

\* sub in s
contains(s, sub) ==
    \E k \in 1..(Len(s) - Len(sub) + 1) : SubSeq(s, k, k + Len(sub) - 1) = sub

\* removesuffix that removes nothing.
removesuffix_none(s, suffix) == s

removesuffix(s, suffix) ==
    IF endswith(s, suffix) THEN SubSeq(s, 1, Len(s) - Len(suffix)) ELSE s

\* fmt03d without the padding: f"{n}"
fmt03d_plain(n) == ToString(n)

\* f"{n:03d}"
fmt03d(n) ==
    IF n < 10 THEN "00" \o ToString(n)
    ELSE IF n < 100 THEN "0" \o ToString(n)
    ELSE ToString(n)

HexDigits == "0123456789abcdef"

\* f"{n:04x}" for 0 <= n < 65536
fmt04x(n) ==
    LET d(k) == SubSeq(HexDigits, k + 1, k + 1)
    IN d((n \div 4096) % 16) \o d((n \div 256) % 16) \o d((n \div 16) % 16)
         \o d(n % 16)

(***************************************************************************)
(* map_to_rucio: the Rucio dataset of a DatasetRef.  dsmap is the module-  *)
(* level cache from (dataset type name, massive) to the base category.     *)
(* A ref is a record [name, dstype, dims, tract, visit, day_obs, run,      *)
(* content]; name is its path relative to the datastore root ("" when the  *)
(* file lies outside the root) and content its bytes.                      *)
(***************************************************************************)
massive_of(ref) == "tract" \in ref.dims /\ "visit" \in ref.dims

\* The elif chain that computes the base on a cache miss.
base_uncached(dstype, massive, run) ==
    IF endswith(dstype, "_config") \/ contains("skyMap", dstype)
    THEN "Configuration"
    ELSE IF endswith(dstype, "_log")
    THEN (IF massive THEN "Provenance/" \o removesuffix(dstype, "_log")
          ELSE "Provenance")
    ELSE IF endswith(dstype, "_metadata")
    THEN (IF massive THEN "Provenance/" \o removesuffix(dstype, "_metadata")
          ELSE "Provenance")
    ELSE IF contains(run, "/calib/")
    THEN "Calibration"
    ELSE IF contains(dstype, "_consolidated_map_")
    THEN "Map"
    ELSE IF \/ contains(dstype, "_image")
            \/ contains(dstype, "_coadd")
            \/ contains(dstype, "_background")
    THEN "Image/" \o dstype
    ELSE IF \/ contains(dstype, "object")
            \/ contains(dstype, "source")
            \/ contains(dstype, "table")
            \/ contains(dstype, "summary")
    THEN "Catalog/" \o dstype
    ELSE IF startswith(dstype, "the_monster_")
    THEN "ReferenceCatalog"
    ELSE dstype

dsmap_key(ref) == <<ref.dstype, massive_of(ref)>>

\* base_of without the cache: the base is computed for every ref.
base_of_fresh(ref, dsmap) ==
    base_uncached(ref.dstype, massive_of(ref), ref.run)

\* base, as bound by the if/elif chain: the cached value when there is one.
base_of(ref, dsmap) ==
    IF dsmap_key(ref) \in DOMAIN dsmap
    THEN dsmap[dsmap_key(ref)]
    ELSE base_uncached(ref.dstype, massive_of(ref), ref.run)

\* dsmap after the call: every miss stores the base it computed.
dsmap_after(ref, dsmap) ==
    IF dsmap_key(ref) \in DOMAIN dsmap
    THEN dsmap
    ELSE (dsmap_key(ref) :> base_uncached(ref.dstype, massive_of(ref), ref.run))
           @@ dsmap

\* refine without the refinement: the base as it is.
refine_none(ref, base) == base

\* The refinement of the base by the dimensions.
refine(ref, base) ==
    IF "tract" \in ref.dims
    THEN (IF ref.dstype \in {"dia_object", "dia_source", "object"}
          THEN base
          ELSE base \o "/Tract" \o ToString(ref.tract))
    ELSE IF "visit" \in ref.dims
    THEN (IF "detector" \in ref.dims
          THEN base \o "/" \o ToString(ref.day_obs) \o "/"
                 \o fmt03d((ref.visit \div 100) % 1000)
          ELSE base \o "/" \o ToString(ref.day_obs))
    ELSE base

map_to_rucio(ref, dsmap) == "Dataset/" \o refine(ref, base_of(ref, dsmap))

EmptyMap == <<>>

(***************************************************************************)
(* The checksum block.  A file's content is a sequence of bytes (0..255).  *)
(* zlib.adler32 is computed as zlib computes it, on the two 16-bit halves  *)
(* a (low) and b (high) of its 32-bit value.  hashlib.md5 is an object     *)
(* whose state is updated by every chunk in order; its compression         *)
(* function is replaced by a 16-bit multiplicative mix.                    *)
(***************************************************************************)
AdlerBase == 65521

Md5Mix == 31

\* fd.read(10 * 1024 * 1024)
ChunkSize == 10 * 1024 * 1024

RECURSIVE adler32(_, _)
\* zlib.adler32(buf, value)
adler32(buf, value) ==
    IF buf = <<>> THEN value
    ELSE LET a == (value.a + Head(buf)) % AdlerBase
             b == (value.b + a) % AdlerBase
         IN adler32(Tail(buf), [a |-> a, b |-> b])

\* The default starting value 1 of zlib.adler32.
adler32_seed == [a |-> 1, b |-> 0]

RECURSIVE md5_update(_, _)
\* md5.update(buf)
md5_update(h, buf) ==
    IF buf = <<>> THEN h
    ELSE md5_update((h * Md5Mix + Head(buf) + 1) % AdlerBase, Tail(buf))

\* hashlib.md5()
md5_new == 7

\* md5.hexdigest()
hexdigest(h) == fmt04x(h)

\* f"{adler32:08x}"
fmt08x(value) == fmt04x(value.b) \o fmt04x(value.a)

\* size = 0; md5 = hashlib.md5(); adler32 = zlib.adler32(b"")
checksum_init ==
    [size |-> 0, md5 |-> md5_new, adler32 |-> adler32(<<>>, adler32_seed)]

\* chunk_step with adler32 restarted on every chunk: zlib.adler32(buf).
chunk_step_fresh(ck, buf) ==
    [size |-> ck.size + Len(buf),
     md5 |-> md5_update(ck.md5, buf),
     adler32 |-> adler32(buf, adler32_seed)]

\* The body of the read loop, for one chunk buf.
chunk_step(ck, buf) ==
    [size |-> ck.size + Len(buf),
     md5 |-> md5_update(ck.md5, buf),
     adler32 |-> adler32(buf, ck.adler32)]

\* fd.read(n) at offset pos of a file: at most n bytes, empty at the end.
read(content, pos, n) ==
    SubSeq(content, pos + 1, IF pos + n < Len(content) THEN pos + n ELSE Len(content))

RECURSIVE read_loop(_, _, _, _)
\* while buf := fd.read(n): ...
read_loop(content, pos, n, ck) ==
    LET buf == read(content, pos, n)
    IN IF buf = <<>> THEN ck
       ELSE read_loop(content, pos + Len(buf), n, chunk_step(ck, buf))

\* checksum without the test of dry_run: the file is always read.
checksum_always(content, dry_run) ==
    read_loop(content, 0, ChunkSize, checksum_init)

\* The sums of one file: the file is read only when not in dry-run.
checksum(content, dry_run) ==
    IF dry_run THEN checksum_init
    ELSE read_loop(content, 0, ChunkSize, checksum_init)

\* The Rucio DID of the file.
make_did(rel_path, ck) ==
    [name |-> rel_path,
     bytes |-> ck.size,
     md5 |-> hexdigest(ck.md5),
     adler32 |-> fmt08x(ck.adler32)]

(***************************************************************************)
(* retry.  An invocation of func ends "ok" or raises an exception, named   *)
(* by its class.  The except clause catches the two sqlalchemy classes and *)
(* rucio's RucioException, hence every subclass of it: rucio derives all   *)
(* its exceptions, DataIdentifierNotFound and DataIdentifierAlreadyExists  *)
(* among them, from RucioException.                                        *)
(***************************************************************************)
max_retries == 10

RucioExceptions ==
    {"RucioException", "DataIdentifierNotFound", "DataIdentifierAlreadyExists"}

Exceptions ==
    {"InterfaceError", "OperationalError", "OSError", "KeyError"}
      \cup RucioExceptions

\* caught without rucio.common.exception.RucioException.
caught_sqlalchemy(e) == e \in {"InterfaceError", "OperationalError"}

\* except (InterfaceError, OperationalError, RucioException)
caught(e) ==
    e \in {"InterfaceError", "OperationalError"} \cup RucioExceptions

\* retry_step without the raise after the loop: retry returns None.
retry_step_silent(retries, outcome) ==
    IF outcome = "ok" \/ (caught(outcome) /\ retries + 1 >= max_retries)
    THEN [status |-> "returned", retries |-> retries, fault |-> "none"]
    ELSE IF caught(outcome)
    THEN [status |-> "loop", retries |-> retries + 1, fault |-> "none"]
    ELSE [status |-> "raised", retries |-> retries, fault |-> outcome]

\* One pass of the while loop (retries < max_retries) on the outcome of the
\* invocation of func: the call returns, comes back to the loop, or raises.
retry_step(retries, outcome) ==
    IF outcome = "ok"
    THEN [status |-> "returned", retries |-> retries, fault |-> "none"]
    ELSE IF caught(outcome)
    THEN (IF retries + 1 < max_retries
          THEN [status |-> "loop", retries |-> retries + 1, fault |-> "none"]
          ELSE [status |-> "raised", retries |-> retries + 1,
                fault |-> "RuntimeError"])
    ELSE [status |-> "raised", retries |-> retries, fault |-> outcome]

(***************************************************************************)
(* sorted(): the elements of a sequence of records with distinct ids, in   *)
(* the order of their ids (the order of DatasetType and DatasetRef).       *)
(***************************************************************************)
Range(seq) == {seq[n] : n \in 1..Len(seq)}

Reverse(seq) == [n \in 1..Len(seq) |-> seq[Len(seq) + 1 - n]]

ordered(S) ==
    [n \in 1..Cardinality(S) |->
        CHOOSE e \in S : Cardinality({f \in S : f.id < e.id}) = n - 1]

is_sorted(seq) == \A n \in 1..(Len(seq) - 1) : seq[n].id < seq[n + 1].id

sorted(seq) ==
    IF is_sorted(seq) THEN seq
    ELSE IF is_sorted(Reverse(seq)) THEN Reverse(seq)
    ELSE ordered(Range(seq))

(***************************************************************************)
(* The state.                                                              *)
(*   config   the parsed arguments of each process                         *)
(*   catalog  the Butler collection: its dataset types, each with its refs *)
(*   proc     the script's variables and position, per process             *)
(*   rucio    the Rucio server: DIDs of datasets, replicas at the RSE,     *)
(*            dataset contents, closed datasets, arcBackup metadata        *)
(*   net      the faults the remote services may still raise               *)
(*   harness  the function under test, in the specifications of retry and  *)
(*            of the checksum loop alone                                   *)
(* proc[p].calls is the remote calls p has made so far, in order, and      *)
(* proc[p].seen the refs that have passed its shard filter.                *)
(***************************************************************************)
(***************************************************************************)
(* update_did_metadata.py                                                  *)
(***************************************************************************)
\* verify_metadata that compares nothing.
verify_metadata_any(a, b) == TRUE

\* verify_metadata(a, b): no key of a has a value that differs from b[k].
verify_metadata(a, b) == \A k \in DOMAIN a : a[k] = b[k]

\* {k: v for k, v in metadata.items() if k in ['adler32', 'md5', 'bytes']}
vals(metadata) ==
    [k \in DOMAIN metadata \cap {"adler32", "md5", "bytes"} |-> metadata[k]]

\* update_did: did.set_metadata_bulk with the adler32, bytes and md5 of file.
update_did(metadata, file) ==
    [metadata EXCEPT !.adler32 = file.adler32, !.bytes = file.bytes, !.md5 = file.md5]

VARIABLES config, catalog, proc, rucio, net, harness

vars == <<config, catalog, proc, rucio, net, harness>>

Procs == 1..MaxShards

\* len(files) >= 500
replica_batch == 500

\* len(rucio_datasets[rucio_dataset]) >= 500
dataset_batch == 500

\* seal_guard without its upper limit on njobs.
seal_guard_any(c) == c.njobs # None

\* config.njobs is not None and config.njobs <= 1
seal_guard(c) == c.njobs # None /\ c.njobs <= 1

\* not_mine with the job number tested for truth like njobs: job 0 skips
\* nothing.
not_mine_zero(c, j) ==
    Truthy(c.njobs) /\ Truthy(c.jobnum) /\ (j % c.njobs) # c.jobnum

\* config.njobs and j % config.njobs != config.jobnum, for the index j of
\* enumerate (from 0).
not_mine(c, j) == Truthy(c.njobs) /\ (j % c.njobs) # c.jobnum

\* direct_ingested that knows raw only.
direct_ingested_raw(name) == name = "raw"

\* Known dataset types ingested with -t direct.
direct_ingested(name) ==
    name = "raw" \/ name = "guider_raw" \/ startswith(name, "the_monster_")

names_of(dids) == {dids[n].name : n \in 1..Len(dids)}

\* not_existing without the test: every DID is kept.
not_existing_all(dids, existing_names) == dids

\* not_existing with the test inverted: the DIDs that exist are kept.
not_existing_kept(dids, existing_names) ==
    SelectSeq(dids, LAMBDA did : did.name \in existing_names)

\* [did for did in dids if did["name"] not in existing_names]
not_existing(dids, existing_names) ==
    SelectSeq(dids, LAMBDA did : did.name \notin existing_names)

\* An uncaught exception ends the process.
abort(s, e) == [s EXCEPT !.pc = "aborted", !.fault = e]

\* continue / the end of the body of "for j, ref in enumerate(ref_list)".
next_ref(s) == [s EXCEPT !.j = @ + 1, !.pc = "for_ref"]

\* rucio_datasets[rucio_dataset] = []; n_files[...] = 0; n_bytes[...] = 0
setup(s) ==
    [s EXCEPT !.rucio_datasets = (s.rucio_dataset :> <<>>) @@ @,
              !.ds_order = Append(@, s.rucio_dataset),
              !.n_files = (s.rucio_dataset :> 0) @@ @,
              !.n_bytes = (s.rucio_dataset :> 0) @@ @]

\* add_to_dataset with > for >= in the test of the length of the batch.
add_to_dataset_late(s, c) ==
    LET path == s.rucio_dataset
        s1 == [s EXCEPT !.n_files[path] = @ + 1,
                        !.n_bytes[path] = @ + s.did.bytes,
                        !.rucio_datasets[path] = Append(@, s.did)]
    IN IF Len(s1.rucio_datasets[path]) > dataset_batch
       THEN (IF ~c.dry_run
             THEN [s1 EXCEPT !.pc = "list_content", !.final = FALSE]
             ELSE next_ref([s1 EXCEPT !.rucio_datasets[path] = <<>>]))
       ELSE next_ref(s1)

\* add_to_dataset without n_files[rucio_dataset] += 1.
add_to_dataset_uncounted(s, c) ==
    LET path == s.rucio_dataset
        s1 == [s EXCEPT !.n_bytes[path] = @ + s.did.bytes,
                        !.rucio_datasets[path] = Append(@, s.did)]
    IN IF Len(s1.rucio_datasets[path]) >= dataset_batch
       THEN (IF ~c.dry_run
             THEN [s1 EXCEPT !.pc = "list_content", !.final = FALSE]
             ELSE next_ref([s1 EXCEPT !.rucio_datasets[path] = <<>>]))
       ELSE next_ref(s1)

\* From "Do batched addition of files to Datasets" to the next remote call.
add_to_dataset(s, c) ==
    LET path == s.rucio_dataset
        s1 == [s EXCEPT !.n_files[path] = @ + 1,
                        !.n_bytes[path] = @ + s.did.bytes,
                        !.rucio_datasets[path] = Append(@, s.did)]
    IN IF Len(s1.rucio_datasets[path]) >= dataset_batch
       THEN (IF ~c.dry_run
             THEN [s1 EXCEPT !.pc = "list_content", !.final = FALSE]
             ELSE next_ref([s1 EXCEPT !.rucio_datasets[path] = <<>>]))
       ELSE next_ref(s1)

\* From "Checksum the file" to the next remote call.  open() and fd.read()
\* are in no try block: the OSError of a file that cannot be read leaves
\* the script.
checksum_and_batch(s, c) ==
    LET ref == s.ref_list[s.j]
        did == make_did(ref.name, checksum(ref.content, c.dry_run))
        s1 == [s EXCEPT !.did = did, !.files = Append(@, did)]
    IN IF ~c.dry_run /\ ~ref.readable THEN abort(s, "OSError")
       ELSE IF Len(s1.files) >= replica_batch
       THEN (IF ~c.dry_run
             THEN [s1 EXCEPT !.pc = "list_replicas", !.final = FALSE]
             ELSE add_to_dataset([s1 EXCEPT !.files = <<>>], c))
       ELSE add_to_dataset(s1, c)

\* handle_ref without the test "rucio_dataset not in rucio_datasets".
handle_ref_recheck(s, c) ==
    LET ref == s.ref_list[s.j]
    IN IF not_mine(c, s.j - 1) THEN next_ref(s)
       ELSE IF ref.name = ""
       THEN next_ref([s EXCEPT !.seen = @ \cup {ref.id}])
       ELSE LET path == map_to_rucio(ref, s.dsmap)
                s1 == [s EXCEPT !.seen = @ \cup {ref.id},
                                !.dsmap = dsmap_after(ref, s.dsmap),
                                !.rucio_dataset = path]
            IN IF ~c.dry_run THEN [s1 EXCEPT !.pc = "get_did"]
               ELSE IF path \notin DOMAIN s.rucio_datasets
               THEN checksum_and_batch(setup(s1), c)
               ELSE checksum_and_batch(s1, c)

\* handle_ref without the test of rel_path.
handle_ref_inside(s, c) ==
    LET ref == s.ref_list[s.j]
    IN IF not_mine(c, s.j - 1) THEN next_ref(s)
       ELSE LET path == map_to_rucio(ref, s.dsmap)
                s1 == [s EXCEPT !.seen = @ \cup {ref.id},
                                !.dsmap = dsmap_after(ref, s.dsmap),
                                !.rucio_dataset = path]
            IN IF path \notin DOMAIN s.rucio_datasets
               THEN (IF ~c.dry_run THEN [s1 EXCEPT !.pc = "get_did"]
                     ELSE checksum_and_batch(setup(s1), c))
               ELSE checksum_and_batch(s1, c)

\* The body of the inner loop for ref_list[j], up to the first remote call.
handle_ref(s, c) ==
    LET ref == s.ref_list[s.j]
    IN IF not_mine(c, s.j - 1) THEN next_ref(s)
       ELSE IF ref.name = ""
       THEN next_ref([s EXCEPT !.seen = @ \cup {ref.id}])
       ELSE LET path == map_to_rucio(ref, s.dsmap)
                s1 == [s EXCEPT !.seen = @ \cup {ref.id},
                                !.dsmap = dsmap_after(ref, s.dsmap),
                                !.rucio_dataset = path]
            IN IF path \notin DOMAIN s.rucio_datasets
               THEN (IF ~c.dry_run THEN [s1 EXCEPT !.pc = "get_did"]
                     ELSE checksum_and_batch(setup(s1), c))
               ELSE checksum_and_batch(s1, c)

\* "Finish any partial batches": if files: ...  (files is bound only by the
\* body of the loop over the dataset types).
finish_replicas(s, c) ==
    IF ~s.files_bound THEN abort(s, "NameError")
    ELSE IF s.files # <<>> /\ ~c.dry_run
    THEN [s EXCEPT !.pc = "list_replicas", !.final = TRUE]
    ELSE [s EXCEPT !.pc = "for_rucio_dataset", !.k = 1]

\* logger.info of the counters, then the closing of the dataset: did_client
\* is bound only when not in dry-run.
report_and_close(s, c) ==
    LET path == s.rucio_dataset
        s1 == [s EXCEPT !.reported =
                  Append(@, <<path, s.n_files[path], s.n_bytes[path]>>)]
    IN IF seal_guard(c)
       THEN (IF c.dry_run THEN abort(s1, "NameError")
             ELSE [s1 EXCEPT !.pc = "close"])
       ELSE [s1 EXCEPT !.k = @ + 1, !.pc = "for_rucio_dataset"]

(***************************************************************************)
(* The remote services.  A call is answered, or fails with a transient     *)
(* fault: one of the net.blips single faults, or every call once the       *)
(* service is down.                                                        *)
(***************************************************************************)
Outcomes ==
    IF net.down THEN {"fault"}
    ELSE IF net.blips > 0 THEN {"ok", "fault"}
    ELSE {"ok"}

net_after(o) ==
    IF o = "fault"
    THEN [net EXCEPT !.faults = @ + 1,
                     !.blips = IF net.down THEN @ ELSE @ - 1]
    ELSE net

\* The record of a call: its name and files arguments, whether it was made
\* by the code after the loops, and how many DIDs were pending for it.
call(s, op, name, files, o) ==
    [op |-> op, name |-> name, files |-> names_of(files), outcome |-> o,
     final |-> s.final,
     pending |-> IF op = "add_files_to_dataset"
                 THEN Len(s.rucio_datasets[name]) ELSE Len(files)]

\* The frame of a step of process p that makes one remote call.
Step(p, s, op, name, files, o) ==
    /\ proc' = [proc EXCEPT ![p] =
                  [s EXCEPT !.calls = Append(@, call(proc[p], op, name, files, o))]]
    /\ net' = net_after(o)
    /\ UNCHANGED <<config, catalog, harness>>

\* The frame of a local step of process p.
Local(p, s) ==
    /\ proc' = [proc EXCEPT ![p] = s]
    /\ UNCHANGED <<config, catalog, rucio, net, harness>>

\* One invocation of a call wrapped in retry, raising e on a fault; then is
\* the state of the process after the call has returned.
Retried(p, op, name, files, e, o, then) ==
    LET s == proc[p]
        r == retry_step(s.retries, IF o = "fault" THEN e ELSE "ok")
    IN Step(p,
            CASE r.status = "returned" -> [then EXCEPT !.retries = 0]
              [] r.status = "loop" -> [s EXCEPT !.retries = r.retries]
              [] OTHER -> abort([s EXCEPT !.retries = r.retries], r.fault),
            op, name, files, o)

(***************************************************************************)
(* The steps of a process, in the order of the script.                     *)
(***************************************************************************)
\* dataset_type_list = sorted(retry("DSType query", ...)): the registry
\* lists the dataset types in an order of its own.
QueryDatasetTypes(p) ==
    /\ proc[p].pc = "query_dataset_types"
    /\ \E o \in Outcomes, rev \in BOOLEAN :
         LET listed == [n \in 1..Len(catalog) |->
                           [name |-> catalog[n].name, id |-> catalog[n].id]]
             found == IF rev THEN Reverse(listed) ELSE listed
         IN Retried(p, "queryDatasetTypes", "", <<>>, "OperationalError", o,
                    [proc[p] EXCEPT !.dataset_type_list = sorted(found),
                                    !.i = 1,
                                    !.pc = "for_dstype"])
    /\ UNCHANGED rucio

\* The head of "for i, dstype in enumerate(dataset_type_list)" with the skip
\* of the directly ingested types and files = []; after the last type, the
\* code that follows the loop.
ForDstype(p) ==
    LET s == proc[p]
    IN /\ s.pc = "for_dstype"
       /\ Local(p,
                IF s.i > Len(s.dataset_type_list)
                THEN finish_replicas(s, config[p])
                ELSE IF direct_ingested(s.dataset_type_list[s.i].name)
                THEN [s EXCEPT !.i = @ + 1]
                ELSE [s EXCEPT !.files = <<>>,
                               !.files_bound = TRUE,
                               !.pc = "query_datasets"])

\* ref_list = sorted(retry("DSRef query ...", butler.query_datasets, ...))
QueryDatasets(p) ==
    LET s == proc[p]
    IN /\ s.pc = "query_datasets"
       /\ \E o \in Outcomes, rev \in BOOLEAN :
            LET name == s.dataset_type_list[s.i].name
                refs == (CHOOSE t \in Range(catalog) : t.name = name).refs
                found == IF rev THEN Reverse(refs) ELSE refs
            IN Retried(p, "query_datasets", name, <<>>, "OperationalError", o,
                       [s EXCEPT !.ref_list = sorted(found),
                                 !.j = 1,
                                 !.pc = "for_ref"])
       /\ UNCHANGED rucio

\* The head of "for j, ref in enumerate(ref_list)" and the body for one ref
\* up to its first remote call; after the last ref, the next dataset type.
ForRef(p) ==
    LET s == proc[p]
    IN /\ s.pc = "for_ref"
       /\ Local(p,
                IF s.j > Len(s.ref_list)
                THEN [s EXCEPT !.i = @ + 1, !.pc = "for_dstype"]
                ELSE handle_ref(s, config[p]))

\* did_client.get_did(config.scope, rucio_dataset), not wrapped in retry:
\* DataIdentifierNotFound leads to the creation, any other exception ends
\* the process.
GetDid(p) ==
    LET s == proc[p]
    IN /\ s.pc = "get_did"
       /\ \E o \in Outcomes :
            Step(p,
                 IF o = "fault" THEN abort(s, "RucioException")
                 ELSE IF s.rucio_dataset \in rucio.dids
                 THEN checksum_and_batch(setup(s), config[p])
                 ELSE [s EXCEPT !.pc = "add_dataset"],
                 "get_did", s.rucio_dataset, <<>>,
                 IF o = "ok" /\ s.rucio_dataset \notin rucio.dids
                 THEN "DataIdentifierNotFound" ELSE o)
       /\ UNCHANGED rucio

\* created without the except clause: DataIdentifierAlreadyExists leaves
\* the script like any other exception.
created_strict(s, c, e) ==
    IF e = "ok" THEN checksum_and_batch(setup(s), c) ELSE abort(s, e)

\* try: did_client.add_dataset(...) except DataIdentifierAlreadyExists: pass
\* and the code that follows, for the outcome e of the call.
created(s, c, e) ==
    IF e \in {"ok", "DataIdentifierAlreadyExists"}
    THEN checksum_and_batch(setup(s), c)
    ELSE abort(s, e)

\* did_client.add_dataset(...), not wrapped in retry: the server raises
\* DataIdentifierAlreadyExists when the dataset exists.
AddDataset(p) ==
    LET s == proc[p]
    IN /\ s.pc = "add_dataset"
       /\ \E o \in Outcomes :
            LET e == IF o = "fault" THEN "RucioException"
                     ELSE IF s.rucio_dataset \in rucio.dids
                     THEN "DataIdentifierAlreadyExists"
                     ELSE "ok"
            IN /\ Step(p, created(s, config[p], e),
                       "add_dataset", s.rucio_dataset, <<>>,
                       IF o = "fault" THEN o ELSE e)
               /\ rucio' = IF o = "fault" THEN rucio
                           ELSE [rucio EXCEPT !.dids = @ \cup {s.rucio_dataset}]

\* present = replica_client.list_replicas(files, ...), not wrapped in retry,
\* and the filter of files by the names present.
ListReplicas(p) ==
    LET s == proc[p]
    IN /\ s.pc = "list_replicas"
       /\ \E o \in Outcomes :
            LET existing_names == names_of(s.files) \cap rucio.replicas
            IN Step(p,
                    IF o = "fault" THEN abort(s, "RucioException")
                    ELSE [s EXCEPT
                            !.existing_names = existing_names,
                            !.files = not_existing(@, existing_names),
                            !.pc = "add_replicas"],
                    "list_replicas", "", s.files, o)
       /\ UNCHANGED rucio

\* retry("add replicas", replica_client.add_replicas, ...); in the loop it
\* is followed by files = [] and the addition to the dataset.
AddReplicas(p) ==
    LET s == proc[p]
    IN /\ s.pc = "add_replicas"
       /\ \E o \in Outcomes :
            /\ Retried(p, "add_replicas", "", s.files, "RucioException", o,
                       IF s.final
                       THEN [s EXCEPT !.pc = "for_rucio_dataset", !.k = 1]
                       ELSE add_to_dataset([s EXCEPT !.files = <<>>], config[p]))
            /\ rucio' = IF o = "fault" THEN rucio
                        ELSE [rucio EXCEPT !.replicas = @ \cup names_of(s.files)]

\* finish_dataset without "if rucio_datasets[rucio_dataset]:" and its body.
finish_dataset_unflushed(s, c) ==
    report_and_close([s EXCEPT !.rucio_dataset = s.ds_order[s.k]], c)

\* The body of "for rucio_dataset in rucio_datasets" up to its first remote
\* call: the flush of what is pending, then the log line and the closing.
finish_dataset(s, c) ==
    LET path == s.ds_order[s.k]
        s1 == [s EXCEPT !.rucio_dataset = path]
    IN IF s.rucio_datasets[path] # <<>> /\ ~c.dry_run
       THEN [s1 EXCEPT !.pc = "list_content", !.final = TRUE]
       ELSE report_and_close(s1, c)

\* The head of "for rucio_dataset in rucio_datasets" (in the order of
\* insertion) and its body up to the first remote call.
ForRucioDataset(p) ==
    LET s == proc[p]
    IN /\ s.pc = "for_rucio_dataset"
       /\ Local(p,
                IF s.k > Len(s.ds_order) THEN [s EXCEPT !.pc = "done"]
                ELSE finish_dataset(s, config[p]))

\* present = did_client.list_content(...), not wrapped in retry, and needed.
ListContent(p) ==
    LET s == proc[p]
        path == s.rucio_dataset
    IN /\ s.pc = "list_content"
       /\ \E o \in Outcomes :
            LET existing_names == {c[2] : c \in {d \in rucio.content : d[1] = path}}
            IN Step(p,
                    IF o = "fault" THEN abort(s, "RucioException")
                    ELSE [s EXCEPT
                            !.existing_names = existing_names,
                            !.needed = not_existing(s.rucio_datasets[path],
                                                    existing_names),
                            !.pc = "add_files_to_dataset"],
                    "list_content", path, <<>>, o)
       /\ UNCHANGED rucio

\* retry("add files to ...", did_client.add_files_to_dataset, ...); in the
\* loop it is followed by rucio_datasets[rucio_dataset] = [].
AddFilesToDataset(p) ==
    LET s == proc[p]
        path == s.rucio_dataset
    IN /\ s.pc = "add_files_to_dataset"
       /\ \E o \in Outcomes :
            /\ Retried(p, "add_files_to_dataset", path, s.needed,
                       "RucioException", o,
                       IF s.final THEN report_and_close(s, config[p])
                       ELSE next_ref([s EXCEPT !.rucio_datasets[path] = <<>>]))
            /\ rucio' = IF o = "fault" THEN rucio
                        ELSE [rucio EXCEPT !.content =
                                @ \cup {<<path, n>> : n \in names_of(s.needed)}]

\* did_client.close(config.scope, rucio_dataset), not wrapped in retry.
Close(p) ==
    LET s == proc[p]
    IN /\ s.pc = "close"
       /\ \E o \in Outcomes :
            /\ Step(p,
                    IF o = "fault" THEN abort(s, "RucioException")
                    ELSE [s EXCEPT !.pc = "set_metadata"],
                    "close", s.rucio_dataset, <<>>, o)
            /\ rucio' = IF o = "fault" THEN rucio
                        ELSE [rucio EXCEPT !.closed = @ \cup {s.rucio_dataset}]

\* did_client.set_metadata(..., "arcBackup", "SLAC_RAW_DISK_BKUP:need"), not
\* wrapped in retry; then the next dataset.
SetMetadata(p) ==
    LET s == proc[p]
    IN /\ s.pc = "set_metadata"
       /\ \E o \in Outcomes :
            /\ Step(p,
                    IF o = "fault" THEN abort(s, "RucioException")
                    ELSE [s EXCEPT !.k = @ + 1, !.pc = "for_rucio_dataset"],
                    "set_metadata", s.rucio_dataset, <<>>, o)
            /\ rucio' = IF o = "fault" THEN rucio
                        ELSE [rucio EXCEPT !.arcBackup = @ \cup {s.rucio_dataset}]

\* The remote services go down, and stay down.
Outage ==
    /\ net.maydown /\ ~net.down
    /\ \E p \in Procs : proc[p].pc \notin {"off", "done", "aborted"}
    /\ net' = [net EXCEPT !.down = TRUE]
    /\ UNCHANGED <<config, catalog, proc, rucio, harness>>

(***************************************************************************)
(* The collections and the initial states.                                 *)
(***************************************************************************)
Science == "LSSTCam/runs/DRP/v1"

Calib == "LSSTCam/calib/DM-1"

NewRef(id, name, dstype, dims, visit, run, content) ==
    [id |-> id, name |-> name, dstype |-> dstype, dims |-> dims, tract |-> 0,
     visit |-> visit, day_obs |-> 20250101, run |-> run, content |-> content,
     readable |-> TRUE]

TypeIds ==
    [flat |-> 1, guider_raw |-> 2, isr_log |-> 3, raw |-> 4,
     the_monster_20240904 |-> 5]

\* The refs a collection is drawn from; the fifth lies outside the root.
Universe ==
    {NewRef(1, "flat/f1.fits", "flat", {"instrument", "detector"}, 0, Calib, <<1>>),
     NewRef(2, "flat/f2.fits", "flat", {"instrument", "detector"}, 0, Science, <<1, 2>>),
     NewRef(3, "flat/f3.fits", "flat", {"instrument", "detector"}, 0, Science, <<>>),
     NewRef(4, "isr_log/l1.json", "isr_log", {"visit", "detector"}, 1234, Science, <<255, 0>>),
     NewRef(5, "", "isr_log", {"visit", "detector"}, 1300, Science, <<7>>),
     NewRef(6, "raw/r1.fits", "raw", {"exposure", "detector"}, 0, "LSSTCam/raw/all", <<9>>)}

\* The collection that holds the refs S: its dataset types with their refs.
catalog_of(S) ==
    ordered({[name |-> t, id |-> TypeIds[t],
              refs |-> ordered({r \in S : r.dstype = t})] :
                 t \in {r.dstype : r \in S}})

Catalogs == {catalog_of(S) : S \in {T \in SUBSET Universe : Cardinality(T) <= MaxRefs}}

\* The arguments: --jobnum is given with --njobs > 0.
Configs ==
    {[dry_run |-> d, njobs |-> n, jobnum |-> j] :
        d \in BOOLEAN, n \in {None} \cup (0..MaxJobs), j \in {None} \cup (0..MaxJobs)}

Sensible(c) ==
    IF Truthy(c.njobs) THEN c.jobnum \in 0..(c.njobs - 1) ELSE c.jobnum = None

Nets ==
    {[blips |-> b, down |-> FALSE, maydown |-> FALSE, faults |-> 0] :
        b \in 0..MaxBlips}
      \cup {[blips |-> 0, down |-> FALSE, maydown |-> TRUE, faults |-> 0]}

NoDid == [name |-> "", bytes |-> 0, md5 |-> "", adler32 |-> ""]

\* A process at the start of the script.
Started ==
    [pc |-> "query_dataset_types", fault |-> "none",
     dataset_type_list |-> <<>>, i |-> 0,
     ref_list |-> <<>>, j |-> 0,
     files |-> <<>>, files_bound |-> FALSE,
     rucio_datasets |-> <<>>, ds_order |-> <<>>,
     n_files |-> <<>>, n_bytes |-> <<>>,
     dsmap |-> EmptyMap, retries |-> 0, final |-> FALSE, k |-> 0,
     rucio_dataset |-> "", did |-> NoDid, needed |-> <<>>,
     existing_names |-> {},
     reported |-> <<>>, seen |-> {}, calls |-> <<>>]

Off == [Started EXCEPT !.pc = "off"]

NoConfig == [dry_run |-> TRUE, njobs |-> None, jobnum |-> None]

EmptyRucio ==
    [dids |-> {}, replicas |-> {}, content |-> {}, closed |-> {}, arcBackup |-> {}]

\* A server on which an earlier run has registered flat/f2.fits.
UsedRucio ==
    [dids |-> {"Dataset/flat"}, replicas |-> {"flat/f2.fits"},
     content |-> {<<"Dataset/flat", "flat/f2.fits">>},
     closed |-> {}, arcBackup |-> {}]

NoHarness == [kind |-> "none"]

\* One process, with any arguments.
Init ==
    /\ catalog \in Catalogs
    /\ \E c \in {c \in Configs : Sensible(c)} :
         config = [p \in Procs |-> IF p = 1 THEN c ELSE NoConfig]
    /\ proc = [p \in Procs |-> IF p = 1 THEN Started ELSE Off]
    /\ rucio \in {EmptyRucio, UsedRucio}
    /\ net \in Nets
    /\ harness = NoHarness

Run(p) ==
    \/ QueryDatasetTypes(p)
    \/ ForDstype(p)
    \/ QueryDatasets(p)
    \/ ForRef(p)
    \/ GetDid(p)
    \/ AddDataset(p)
    \/ ListReplicas(p)
    \/ AddReplicas(p)
    \/ ForRucioDataset(p)
    \/ ListContent(p)
    \/ AddFilesToDataset(p)
    \/ Close(p)
    \/ SetMetadata(p)

Next == (\E p \in Procs : Run(p)) \/ Outage

Spec == Init /\ [][Next]_vars

(***************************************************************************)
(* The shards of one registration: njobs processes with the job numbers    *)
(* 0..njobs-1 (or one process without --njobs) over the same collection    *)
(* and server, the services answering every call.                          *)
(***************************************************************************)
InitShards ==
    /\ catalog \in Catalogs
    /\ \E n \in 0..MaxShards, d \in BOOLEAN :
         /\ config = [p \in Procs |->
                        IF n = 0 THEN [dry_run |-> d, njobs |-> None, jobnum |-> None]
                        ELSE [dry_run |-> d, njobs |-> n, jobnum |-> p - 1]]
         /\ proc = [p \in Procs |->
                      IF p = 1 \/ p <= n THEN Started ELSE Off]
    /\ rucio = EmptyRucio
    /\ net = [blips |-> 0, down |-> FALSE, maydown |-> FALSE, faults |-> 0]
    /\ harness = NoHarness

NextShards == \E p \in Procs : Run(p)

SpecShards == InitShards /\ [][NextShards]_vars

(***************************************************************************)
(* One process over a collection of many refs of one dataset type, all     *)
(* routed to one Rucio dataset.                                            *)
(***************************************************************************)
BulkSizes ==
    {dataset_batch - 1, dataset_batch, dataset_batch + 1,
     2 * dataset_batch, 2 * dataset_batch + 200}

bulk_catalog(n) ==
    <<[name |-> "flat", id |-> 1,
       refs |-> [m \in 1..n |->
                   NewRef(m, "flat/f" \o ToString(m) \o ".fits", "flat",
                          {"instrument", "detector"}, 0, Science, <<>>)]]>>

InitBatch ==
    /\ catalog \in {bulk_catalog(n) : n \in BulkSizes}
    /\ \E j \in {None, 1} :
         config = [p \in Procs |->
                     IF p = 1
                     THEN [dry_run |-> FALSE, njobs |-> j,
                           jobnum |-> IF j = None THEN None ELSE 0]
                     ELSE NoConfig]
    /\ proc = [p \in Procs |-> IF p = 1 THEN Started ELSE Off]
    /\ rucio \in {EmptyRucio, UsedRucio}
    /\ net = [blips |-> 0, down |-> FALSE, maydown |-> FALSE, faults |-> 0]
    /\ harness = NoHarness

SpecBatch == InitBatch /\ [][NextShards]_vars

(***************************************************************************)
(* The script run twice, not in dry-run, on the same collection with the   *)
(* same arguments against the same server: the second process starts when  *)
(* the first has ended.  A call may meet a single transient fault, or the  *)
(* services may go down during the first run; they answer again when the   *)
(* script is started again.                                                *)
(***************************************************************************)
InitTwice ==
    /\ catalog \in Catalogs
    /\ \E n \in {None, 1} :
         config = [p \in Procs |->
                     [dry_run |-> FALSE, njobs |-> n,
                      jobnum |-> IF n = None THEN None ELSE 0]]
    /\ proc = [p \in Procs |-> IF p = 1 THEN Started ELSE Off]
    /\ rucio \in {EmptyRucio, UsedRucio}
    /\ net \in {[blips |-> 0, down |-> FALSE, maydown |-> m, faults |-> 0] :
                  m \in BOOLEAN}
              \cup {[blips |-> 1, down |-> FALSE, maydown |-> FALSE, faults |-> 0]}
    /\ harness = NoHarness

\* The script is started again, once the first process has ended and the
\* services answer.
Rerun ==
    /\ proc[1].pc \in {"done", "aborted"}
    /\ proc[2].pc = "off"
    /\ proc' = [proc EXCEPT ![2] = Started]
    /\ net' = [net EXCEPT !.down = FALSE, !.maydown = FALSE]
    /\ UNCHANGED <<config, catalog, rucio, harness>>

NextTwice == (\E p \in Procs : Run(p)) \/ Rerun \/ Outage

SpecTwice == InitTwice /\ [][NextTwice]_vars

(***************************************************************************)
(* One process on a collection in which a file cannot be read: open() or   *)
(* fd.read() raises OSError for it.  The collection may also hold guider   *)
(* raws and a reference catalog.  The services answer every call.          *)
(***************************************************************************)
Unreadable ==
    [NewRef(7, "flat/f4.fits", "flat", {"instrument", "detector"}, 0, Science, <<3>>)
       EXCEPT !.readable = FALSE]

Direct ==
    {NewRef(8, "guider_raw/g1.fits", "guider_raw", {"exposure", "detector"}, 0,
            "LSSTCam/raw/guiders", <<4>>),
     NewRef(9, "the_monster_20240904/m1.fits", "the_monster_20240904", {"htm7"}, 0,
            "refcats/DM-1", <<5>>)}

InitIO ==
    /\ catalog \in {catalog_of(S) :
                      S \in {T \in SUBSET (Universe \cup {Unreadable} \cup Direct) :
                                Cardinality(T) <= MaxRefs}}
    /\ \E d \in BOOLEAN, n \in {None, 1} :
         config = [p \in Procs |->
                     IF p = 1
                     THEN [dry_run |-> d, njobs |-> n,
                           jobnum |-> IF n = None THEN None ELSE 0]
                     ELSE NoConfig]
    /\ proc = [p \in Procs |-> IF p = 1 THEN Started ELSE Off]
    /\ rucio = EmptyRucio
    /\ net = [blips |-> 0, down |-> FALSE, maydown |-> FALSE, faults |-> 0]
    /\ harness = NoHarness

SpecIO == InitIO /\ [][NextShards]_vars

(***************************************************************************)
(* retry alone: func raises the exception exc on its first fails           *)
(* invocations and returns on the next one; with fails >= max_retries it   *)
(* raises on every invocation retry can make.                              *)
(***************************************************************************)
InitRetry ==
    /\ harness \in {[kind |-> "retry", exc |-> e, fails |-> m, invoked |-> 0,
                      retries |-> 0, status |-> "loop", fault |-> "none"] :
                        e \in Exceptions, m \in 0..(max_retries + MaxExtra)}
    /\ catalog = <<>>
    /\ config = [p \in Procs |-> NoConfig]
    /\ proc = [p \in Procs |-> Off]
    /\ rucio = EmptyRucio
    /\ net = [blips |-> 0, down |-> FALSE, maydown |-> FALSE, faults |-> 0]

\* One pass of the loop of retry: an invocation of func and its outcome.
RetryInvoke ==
    /\ harness.kind = "retry"
    /\ harness.status = "loop"
    /\ LET outcome == IF harness.invoked < harness.fails THEN harness.exc ELSE "ok"
           r == retry_step(harness.retries, outcome)
       IN harness' = [harness EXCEPT !.invoked = @ + 1,
                                     !.retries = r.retries,
                                     !.status = r.status,
                                     !.fault = r.fault]
    /\ UNCHANGED <<config, catalog, proc, rucio, net>>

SpecRetry == InitRetry /\ [][RetryInvoke]_vars

(***************************************************************************)
(* update_did_metadata.main on a corrections file, run once and then once  *)
(* more on the same file.  The DIDs are those of the Rucio database: a DID *)
(* of the file may be missing there, and set_metadata_bulk may raise.      *)
(***************************************************************************)
Names == {"a", "b"}

\* Values of (adler32, md5, bytes); the third differs from the first in
\* bytes only.
Metas ==
    {[adler32 |-> "00000001", md5 |-> "d41d", bytes |-> 0],
     [adler32 |-> "00620062", md5 |-> "92eb", bytes |-> 1],
     [adler32 |-> "00000001", md5 |-> "d41d", bytes |-> 1]}

\* An entry of the corrections file.
Correction(name, new, old) ==
    [name |-> name, scope |-> "test", adler32 |-> new.adler32, md5 |-> new.md5,
     bytes |-> new.bytes, old |-> old]

Corrections == {Correction(n, new, old) : n \in Names, new \in Metas, old \in Metas}

CorrectionFiles == UNION {[1..n -> Corrections] : n \in 0..MaxCorrections}

\* A row of the database, as did.get_metadata returns it.
Row(m) == [adler32 |-> m.adler32, md5 |-> m.md5, bytes |-> m.bytes, did_type |-> "FILE"]

\* What stands in the database for a DID it does not hold.
NoRow == [did_type |-> "none"]

Databases == [Names -> {Row(m) : m \in Metas} \cup {NoRow}]

InitUpdate ==
    /\ harness \in {[kind |-> "update", dids |-> f, db |-> db, run |-> 1, pos |-> 1,
                      to_update |-> 0, updated |-> 0, failed |-> <<>>,
                      writes |-> <<>>, status |-> "loop", first |-> "none"] :
                        f \in CorrectionFiles, db \in Databases}
    /\ catalog = <<>>
    /\ config = [p \in Procs |-> NoConfig]
    /\ proc = [p \in Procs |-> Off]
    /\ rucio = EmptyRucio
    /\ net = [blips |-> 0, down |-> FALSE, maydown |-> FALSE, faults |-> 0]

\* One pass of "for file in dids": get_metadata raises for a DID that is not
\* in the database, which ends main; set_metadata_bulk sets the values or
\* raises.
UpdateDid ==
    /\ harness.kind = "update" /\ harness.status = "loop"
    /\ harness.pos <= Len(harness.dids)
    /\ LET file == harness.dids[harness.pos]
           current_metadata == harness.db[file.name]
           h == [harness EXCEPT !.pos = @ + 1]
       IN IF current_metadata = NoRow
          THEN harness' = [harness EXCEPT !.status = "raised"]
          ELSE IF verify_metadata(vals(current_metadata), file.old)
          THEN \E raises \in BOOLEAN :
                 IF raises
                 THEN harness' = [h EXCEPT !.to_update = @ + 1,
                                           !.failed = Append(@, file.name)]
                 ELSE LET updated_metadata == update_did(current_metadata, file)
                      IN harness' =
                           [h EXCEPT !.to_update = @ + 1,
                                     !.db[file.name] = updated_metadata,
                                     !.writes = Append(@, <<harness.run, harness.pos>>),
                                     !.updated =
                                        IF verify_metadata(vals(updated_metadata), file)
                                        THEN @ + 1 ELSE @]
          ELSE harness' = h
    /\ UNCHANGED <<config, catalog, proc, rucio, net>>

\* The end of main: the log line of the three counters.
Summary ==
    /\ harness.kind = "update" /\ harness.status = "loop"
    /\ harness.pos > Len(harness.dids)
    /\ harness' = [harness EXCEPT !.status = "done"]
    /\ UNCHANGED <<config, catalog, proc, rucio, net>>

\* The script is run once more on the same corrections file.
MainAgain ==
    /\ harness.kind = "update" /\ harness.status \in {"done", "raised"}
    /\ harness.run = 1
    /\ harness' = [harness EXCEPT
                     !.run = 2, !.pos = 1, !.to_update = 0, !.updated = 0,
                     !.failed = <<>>, !.status = "loop",
                     !.first = IF harness.status = "done" /\ harness.failed = <<>>
                               THEN "ok" ELSE "failed"]
    /\ UNCHANGED <<config, catalog, proc, rucio, net>>

SpecUpdate == InitUpdate /\ [][UpdateDid \/ Summary \/ MainAgain]_vars

(***************************************************************************)
(* The checksum loop alone, on any content read in chunks of any size.     *)
(***************************************************************************)
Bytes == {0, 1, 255}

Contents == UNION {[1..n -> Bytes] : n \in 0..MaxLen}

InitChecksum ==
    /\ harness \in {[kind |-> "checksum", content |-> c, n |-> n, pos |-> 0,
                      ck |-> checksum_init, eof |-> FALSE] :
                        c \in Contents, n \in 1..MaxChunk}
    /\ catalog = <<>>
    /\ config = [p \in Procs |-> NoConfig]
    /\ proc = [p \in Procs |-> Off]
    /\ rucio = EmptyRucio
    /\ net = [blips |-> 0, down |-> FALSE, maydown |-> FALSE, faults |-> 0]

\* One pass of "while buf := fd.read(n)": the read and, unless the buffer is
\* empty, the body.
ReadChunk ==
    /\ harness.kind = "checksum"
    /\ ~harness.eof
    /\ LET buf == read(harness.content, harness.pos, harness.n)
       IN harness' = IF buf = <<>> THEN [harness EXCEPT !.eof = TRUE]
                     ELSE [harness EXCEPT !.pos = @ + Len(buf),
                                          !.ck = chunk_step(@, buf)]
    /\ UNCHANGED <<config, catalog, proc, rucio, net>>

SpecChecksum == InitChecksum /\ [][ReadChunk]_vars

(***************************************************************************)
(* map_to_rucio alone: two refs of one dataset type are classified one     *)
(* after the other by a process that starts with an empty dsmap.           *)
(***************************************************************************)
ClassifyTypes ==
    {"raw_metadata", "isr_log", "isr_config", "skyMap", "sky", "flat",
     "deepCoadd_image", "deepCoadd_consolidated_map_psf", "calexp_background",
     "object", "dia_source", "visit_summary", "the_monster_2024"}

DimSets == SUBSET {"tract", "visit", "detector"}

DataIds ==
    {[tract |-> 42, visit |-> 1234], [tract |-> 0, visit |-> 99],
     [tract |-> 7, visit |-> 123456]}

ClassifyRefs ==
    {[id |-> 0, name |-> "f", dstype |-> t, dims |-> d, tract |-> a.tract,
      visit |-> a.visit, day_obs |-> 20250101, run |-> r, content |-> <<>>] :
        t \in ClassifyTypes, d \in DimSets, a \in DataIds, r \in {Science, Calib}}

\* The refs of the dataset type and data id of r1.
Alike(r1) ==
    {r \in ClassifyRefs :
        r.dstype = r1.dstype /\ r.tract = r1.tract /\ r.visit = r1.visit}

InitClassify ==
    /\ \E r1 \in ClassifyRefs : \E r2 \in Alike(r1) :
         harness = [kind |-> "classify", refs |-> <<r1, r2>>, n |-> 0,
                    dsmap |-> EmptyMap, bases |-> <<>>, paths |-> <<>>]
    /\ catalog = <<>>
    /\ config = [p \in Procs |-> NoConfig]
    /\ proc = [p \in Procs |-> Off]
    /\ rucio = EmptyRucio
    /\ net = [blips |-> 0, down |-> FALSE, maydown |-> FALSE, faults |-> 0]

\* rucio_dataset = map_to_rucio(ref), for the next ref.
Classify ==
    /\ harness.kind = "classify"
    /\ harness.n < Len(harness.refs)
    /\ LET ref == harness.refs[harness.n + 1]
       IN harness' = [harness EXCEPT
                        !.n = @ + 1,
                        !.bases = Append(@, base_of(ref, harness.dsmap)),
                        !.paths = Append(@, map_to_rucio(ref, harness.dsmap)),
                        !.dsmap = dsmap_after(ref, harness.dsmap)]
    /\ UNCHANGED <<config, catalog, proc, rucio, net>>

SpecClassify == InitClassify /\ [][Classify]_vars

(***************************************************************************)
(* The properties.                                                         *)
(***************************************************************************)
CallsOf(p) == Range(proc[p].calls)

\* The datasets process p has met: the keys of rucio_datasets.
Touched(p) == Range(proc[p].ds_order)

CatalogRefs == UNION {Range(catalog[n].refs) : n \in 1..Len(catalog)}

content_of(name) == (CHOOSE r \in CatalogRefs : r.name = name).content

\* The DIDs process p holds in files and in the lists of rucio_datasets.
PendingDids(p) ==
    Range(proc[p].files)
      \cup UNION {Range(proc[p].rucio_datasets[d]) : d \in DOMAIN proc[p].rucio_datasets}

\* The sums of a content read whole, as one chunk.
WholeSums(content) ==
    IF content = <<>> THEN checksum_init ELSE chunk_step(checksum_init, content)

MutatingOps ==
    {"add_dataset", "add_replicas", "add_files_to_dataset", "close", "set_metadata"}

\* C1: a process that is not in dry-run and has run to its end with njobs
\* unset or njobs <= 1 has closed every dataset it touched and has set the
\* arcBackup metadata on it.
C1_SoleShardFinalizes ==
    \A p \in Procs :
        (/\ proc[p].pc = "done"
         /\ ~config[p].dry_run
         /\ (config[p].njobs = None \/ config[p].njobs <= 1))
        => \A d \in Touched(p) :
              /\ \E c \in CallsOf(p) :
                    c.op = "close" /\ c.name = d /\ c.outcome = "ok"
              /\ \E c \in CallsOf(p) :
                    c.op = "set_metadata" /\ c.name = d /\ c.outcome = "ok"

\* C2: a process with njobs > 1 never calls close nor set_metadata, at any
\* point of its run.
C2_ShardNeverSeals ==
    \A p \in Procs :
        config[p].njobs > 1
        => /\ \A c \in CallsOf(p) : c.op \notin {"close", "set_metadata"}
           /\ proc[p].pc \notin {"close", "set_metadata"}

\* A shard of two that is not in dry-run has run to its end and has touched
\* a dataset.
C2_Witness ==
    \E p \in Procs :
        /\ config[p].njobs > 1 /\ ~config[p].dry_run
        /\ proc[p].pc = "done" /\ Touched(p) # {}

\* C3: in dry-run, whatever njobs and jobnum, a process that registers at
\* least one file makes none of the calls add_dataset, add_replicas,
\* add_files_to_dataset, close, set_metadata, and does not end in an error
\* while the services answer.
C3_DryRunSilent ==
    \A p \in Procs :
        (config[p].dry_run /\ Touched(p) # {})
        => /\ \A c \in CallsOf(p) : c.op \notin MutatingOps
           /\ (net.faults = 0 => proc[p].pc # "aborted")

\* C4 as stated: in dry-run the size and the two digests of every DID, and
\* the bytes counted for its dataset, are those of the bytes of the file.
C4_DryRunSumsActual ==
    \A p \in Procs :
        config[p].dry_run
        => \A did \in PendingDids(p) :
              did = make_did(did.name, WholeSums(content_of(did.name)))

\* C4, amended: in dry-run no file is read: every DID carries the size 0,
\* the md5 of no bytes and the adler32 00000001, and the bytes counted for
\* every dataset are 0, whatever the files hold; out of dry-run the size
\* and the digests are those of the bytes of the file.
C4_DryRunSumsOfNothing ==
    \A p \in Procs :
        IF config[p].dry_run
        THEN /\ \A did \in PendingDids(p) :
                   /\ did.bytes = 0
                   /\ did.md5 = hexdigest(md5_new)
                   /\ did.adler32 = "00000001"
             /\ \A d \in DOMAIN proc[p].n_bytes : proc[p].n_bytes[d] = 0
        ELSE \A did \in PendingDids(p) :
                 did = make_did(did.name, WholeSums(content_of(did.name)))

\* A dry-run has built the DID of a file that is not empty.
C4_Witness ==
    \E p \in Procs :
        /\ config[p].dry_run
        /\ \E did \in PendingDids(p) : content_of(did.name) # <<>>

\* C5: a func that raises a transient fault (InterfaceError,
\* OperationalError, RucioException) on every invocation is invoked exactly
\* max_retries times and retry then raises RuntimeError; a func that raises
\* anything else, DataIdentifierNotFound and DataIdentifierAlreadyExists
\* included, is invoked once and its exception leaves retry.
C5_RetryBound ==
    harness.kind = "retry"
    => IF harness.exc \in {"InterfaceError", "OperationalError", "RucioException"}
       THEN (harness.fails >= max_retries /\ harness.status # "loop")
            => (harness.invoked = max_retries /\ harness.fault = "RuntimeError")
       ELSE harness.fails >= 1
            => /\ harness.invoked <= 1
               /\ harness.invoked = 1
                  => (harness.status = "raised" /\ harness.fault = harness.exc)

\* C6: one transient fault of the Rucio server, on whichever call, does not
\* end the process: the call is made again.
C6_OneFaultSurvived ==
    (net.faults = 1 /\ ~net.down)
    => \A p \in Procs :
          proc[p].pc = "aborted" => proc[p].fault \notin RucioExceptions

\* The refs of the dataset types that are not skipped.
ShardedRefs == {r \in CatalogRefs : ~direct_ingested(r.dstype)}

\* C7: with njobs = k processes of job numbers 0..k-1 (or one process
\* without njobs) over the same sorted lists, no ref passes the shard filter
\* of two processes, and once all have ended every ref has passed the
\* filter of exactly one.
C7_Partition ==
    /\ \A p, q \in Procs : p # q => proc[p].seen \cap proc[q].seen = {}
    /\ (\A p \in Procs : proc[p].pc \in {"off", "done", "aborted"})
       => \A r \in ShardedRefs :
             Cardinality({p \in Procs : r.id \in proc[p].seen}) = 1

\* Two shards have ended and each has handled a ref of a list of three.
C7_Witness ==
    /\ \A p \in {1, 2} : proc[p].pc = "done" /\ proc[p].seen # {}
    /\ \E n \in 1..Len(catalog) : Len(catalog[n].refs) >= 3

\* C8: two refs with the same dataset type, dimensions and data id (and the
\* same run: the same in everything map_to_rucio reads) are mapped to the
\* same Rucio dataset whatever the cache holds: by a process in the middle
\* of its run as by one that starts.
C8_ClassifierPure ==
    \A p \in Procs : \A r1, r2 \in CatalogRefs :
        (/\ r1.dstype = r2.dstype /\ r1.dims = r2.dims
         /\ r1.tract = r2.tract /\ r1.visit = r2.visit
         /\ r1.day_obs = r2.day_obs /\ r1.run = r2.run)
        => map_to_rucio(r1, proc[p].dsmap) = map_to_rucio(r2, EmptyMap)

\* C9: whatever the size of the chunks, the loop ends with the size of the
\* content and with the md5 and the adler32 of the content read as one
\* chunk: the DID is the same.
C9_ChunkSizeIrrelevant ==
    (harness.kind = "checksum" /\ harness.eof)
    => /\ harness.ck.size = Len(harness.content)
       /\ harness.ck = WholeSums(harness.content)
       /\ make_did("f", harness.ck)
            = make_did("f", read_loop(harness.content, 0, ChunkSize, checksum_init))

\* A content of three bytes has been read to its end in chunks of one byte.
C9_Witness ==
    /\ harness.kind = "checksum" /\ harness.eof
    /\ Len(harness.content) = 3 /\ harness.n = 1

\* The calls of add_files_to_dataset of p on dataset d that returned, made
\* in the loop (final = FALSE) or after it (final = TRUE).
Flushes(p, d, final) ==
    {n \in 1..Len(proc[p].calls) :
        /\ proc[p].calls[n].op = "add_files_to_dataset"
        /\ proc[p].calls[n].name = d
        /\ proc[p].calls[n].outcome = "ok"
        /\ proc[p].calls[n].final = final}

\* C10: when a process that is not in dry-run has ended, with n files
\* routed to a dataset, it has flushed the dataset n div 500 times in the
\* loop, 500 DIDs each time, and after the loop once with the n mod 500
\* DIDs left if there are any, and no name was passed to two flushes.
C10_FlushCounts ==
    \A p \in Procs :
        (proc[p].pc = "done" /\ ~config[p].dry_run)
        => \A d \in Touched(p) :
              LET n == proc[p].n_files[d]
                  c == proc[p].calls
                  all == Flushes(p, d, FALSE) \cup Flushes(p, d, TRUE)
              IN /\ Cardinality(Flushes(p, d, FALSE)) = n \div dataset_batch
                 /\ \A f \in Flushes(p, d, FALSE) : c[f].pending = dataset_batch
                 /\ Cardinality(Flushes(p, d, TRUE))
                      = (IF n % dataset_batch > 0 THEN 1 ELSE 0)
                 /\ \A f \in Flushes(p, d, TRUE) : c[f].pending = n % dataset_batch
                 /\ \A f, g \in all : f # g => c[f].files \cap c[g].files = {}

\* 1200 files have gone to one dataset: two flushes in the loop, one after.
C10_Witness ==
    \E p \in Procs : \E d \in Touched(p) :
        /\ proc[p].pc = "done"
        /\ proc[p].n_files[d] = 2 * dataset_batch + 200
        /\ Cardinality(Flushes(p, d, FALSE)) = 2
        /\ Cardinality(Flushes(p, d, TRUE)) = 1

\* The calls of op that returned, as pairs <<process, index in its calls>>.
Inserts(op) ==
    {x \in UNION {{<<p, n>> : n \in 1..Len(proc[p].calls)} : p \in Procs} :
        /\ proc[x[1]].calls[x[2]].op = op
        /\ proc[x[1]].calls[x[2]].outcome = "ok"}

\* No name was passed to two add_replicas calls that returned, nor to two
\* add_files_to_dataset calls on the same dataset that returned.
NoNameInsertedTwice ==
    \A op \in {"add_replicas", "add_files_to_dataset"} :
        \A x, y \in Inserts(op) :
            LET c == proc[x[1]].calls[x[2]]
                e == proc[y[1]].calls[y[2]]
            IN (x # y /\ c.name = e.name) => c.files \cap e.files = {}

\* C11: when the script has run to its end twice on the same collection
\* against the same server, the second run has reported the same
\* (dataset, number of files, number of bytes) as the first, and no name
\* was inserted twice, neither as a replica nor as a file of a dataset.
C11_Idempotent ==
    /\ (proc[1].pc = "done" /\ proc[2].pc = "done")
       => proc[2].reported = proc[1].reported
    /\ NoNameInsertedTwice

\* Both runs have ended; the first has added a replica and a file of a
\* dataset, the second has found them and has added none.
C11_Witness ==
    /\ proc[1].pc = "done" /\ proc[2].pc = "done"
    /\ proc[1].reported # <<>>
    /\ \E x \in Inserts("add_replicas") :
          x[1] = 1 /\ proc[1].calls[x[2]].files # {}
    /\ \E x \in Inserts("add_files_to_dataset") :
          x[1] = 1 /\ proc[1].calls[x[2]].files # {}
    /\ \E x \in Inserts("list_replicas") :
          x[1] = 2 /\ proc[2].calls[x[2]].files # {}
    /\ \E x \in Inserts("add_replicas") :
          x[1] = 2 /\ proc[2].calls[x[2]].files = {}

\* The refs of process p's slice that were not skipped: those that passed
\* its shard filter and lie under the root.
Handled(p) == {r \in CatalogRefs : r.id \in proc[p].seen /\ r.name # ""}

\* The name was in the files of a list_replicas of p, and is a replica:
\* add_replicas was called with it or it was found present.
ReplicaRegistered(p, name) ==
    /\ \E c \in CallsOf(p) :
          c.op = "list_replicas" /\ c.outcome = "ok" /\ name \in c.files
    /\ name \in rucio.replicas

\* The name is a file of a dataset whose content p has listed.
MemberRegistered(p, name) ==
    \E c \in CallsOf(p) :
        /\ c.op = "list_content" /\ c.outcome = "ok"
        /\ <<c.name, name>> \in rucio.content

\* C12: when a process that is not in dry-run has run to its end, every ref
\* of its slice that was not skipped, of every dataset type, has been
\* passed to add_replicas or found present by list_replicas, and has been
\* passed to add_files_to_dataset or found in the content of its dataset.
C12_AllRegistered ==
    \A p \in Procs :
        (proc[p].pc = "done" /\ ~config[p].dry_run)
        => \A r \in Handled(p) :
              ReplicaRegistered(p, r.name) /\ MemberRegistered(p, r.name)

\* The refs map_to_rucio has classified in the specification of map_to_rucio
\* alone, as indices into harness.refs.
Classified == IF harness.kind = "classify" THEN 1..harness.n ELSE {}

\* C13 as stated: a raw_metadata ref with the dimensions {visit, detector}
\* is mapped to Provenance, one with the dimensions {tract, visit} to
\* Provenance/raw.
C13_RawMetadataPaths ==
    \A n \in Classified :
        LET r == harness.refs[n]
        IN r.dstype = "raw_metadata"
           => /\ r.dims = {"visit", "detector"} => harness.paths[n] = "Provenance"
              /\ r.dims = {"tract", "visit"} => harness.paths[n] = "Provenance/raw"

\* C13, amended: Provenance and Provenance/raw are the base categories of
\* the two refs; the Rucio dataset of the first is
\* Dataset/Provenance/<day_obs>/<partition>, with the partition
\* visit // 100 % 1000 on three digits, and that of the second is
\* Dataset/Provenance/raw/Tract<tract>.
C13_RawMetadataBases ==
    \A n \in Classified :
        LET r == harness.refs[n]
        IN r.dstype = "raw_metadata"
           => /\ r.dims = {"visit", "detector"}
                 => /\ harness.bases[n] = "Provenance"
                    /\ harness.paths[n] \in
                         {"Dataset/Provenance/20250101/012",
                          "Dataset/Provenance/20250101/000",
                          "Dataset/Provenance/20250101/234"}
              /\ r.dims = {"tract", "visit"}
                 => /\ harness.bases[n] = "Provenance/raw"
                    /\ harness.paths[n] =
                         "Dataset/Provenance/raw/Tract" \o ToString(r.tract)

\* A raw_metadata ref of {visit, detector} and one of {tract, visit} have
\* been classified.
C13_Witness ==
    /\ harness.kind = "classify" /\ harness.n = 2
    /\ harness.refs[1].dstype = "raw_metadata"
    /\ harness.refs[1].dims = {"visit", "detector"}
    /\ harness.refs[2].dims = {"tract", "visit"}

\* The classified refs that met no entry of dsmap for their key.
Uncached ==
    {n \in Classified :
        \A m \in 1..(n - 1) : dsmap_key(harness.refs[m]) # dsmap_key(harness.refs[n])}

\* C14 as stated: a deepCoadd_image ref without tract and visit is mapped
\* to Image/deepCoadd_image, one with the tract 42 to
\* Image/deepCoadd_image/Tract42.
C14_DeepCoaddPaths ==
    \A n \in Classified :
        LET r == harness.refs[n]
        IN r.dstype = "deepCoadd_image"
           => /\ r.dims \cap {"tract", "visit"} = {}
                 => harness.paths[n] = "Image/deepCoadd_image"
              /\ ("tract" \in r.dims /\ r.tract = 42)
                 => harness.paths[n] = "Image/deepCoadd_image/Tract42"

\* C14, amended: a deepCoadd_image ref of a run that is not a calibration
\* run, the first of its (type, massive) pair, is mapped to
\* Dataset/Image/deepCoadd_image without tract and visit, and to
\* Dataset/Image/deepCoadd_image/Tract42 with the tract 42.
C14_DeepCoaddDatasets ==
    \A n \in Uncached :
        LET r == harness.refs[n]
        IN (r.dstype = "deepCoadd_image" /\ r.run = Science)
           => /\ r.dims \cap {"tract", "visit"} = {}
                 => harness.paths[n] = "Dataset/Image/deepCoadd_image"
              /\ ("tract" \in r.dims /\ r.tract = 42)
                 => harness.paths[n] = "Dataset/Image/deepCoadd_image/Tract42"

\* A deepCoadd_image ref without dimensions and one of tract 42 have been
\* classified, both of a science run.
C14_Witness ==
    /\ harness.kind = "classify" /\ Uncached = {1, 2}
    /\ harness.refs[1].dstype = "deepCoadd_image"
    /\ harness.refs[1].dims = {} /\ harness.refs[1].run = Science
    /\ harness.refs[2].dims = {"tract", "visit"} /\ harness.refs[2].run = Science
    /\ harness.refs[2].tract = 42

\* C15: the base of a ref that meets no entry of dsmap is given by the first
\* rule that matches, in this order: _config suffix or the type skyMap ->
\* Configuration; _log or _metadata suffix -> Provenance/<type without the
\* suffix> when massive, else Provenance; calibration run -> Calibration;
\* _image, _coadd, _background -> Image/<type>; object, source, table,
\* summary -> Catalog/<type>; the_monster_ prefix -> ReferenceCatalog; else
\* the type.  No other type, such as a type whose name is a part of
\* "skyMap", has the base Configuration.
C15_BaseRules ==
    \A n \in Uncached :
        LET r == harness.refs[n]
            t == r.dstype
            rule ==
                IF endswith(t, "_config") \/ t = "skyMap" THEN "Configuration"
                ELSE IF endswith(t, "_log")
                THEN (IF massive_of(r) THEN "Provenance/" \o removesuffix(t, "_log")
                      ELSE "Provenance")
                ELSE IF endswith(t, "_metadata")
                THEN (IF massive_of(r)
                      THEN "Provenance/" \o removesuffix(t, "_metadata")
                      ELSE "Provenance")
                ELSE IF contains(r.run, "/calib/") THEN "Calibration"
                ELSE IF \/ contains(t, "_image") \/ contains(t, "_coadd")
                        \/ contains(t, "_background")
                THEN "Image/" \o t
                ELSE IF \/ contains(t, "object") \/ contains(t, "source")
                        \/ contains(t, "table") \/ contains(t, "summary")
                THEN "Catalog/" \o t
                ELSE IF startswith(t, "the_monster_") THEN "ReferenceCatalog"
                ELSE t
        IN /\ harness.bases[n] = rule
           /\ harness.bases[n] = "Configuration"
              => (endswith(t, "_config") \/ t = "skyMap")

\* The path C16 gives for the ref r and the base b: b/Tract<N> with tract
\* unless the type is exempt, else b/<day_obs> with visit, and
\* b/<day_obs>/<bucket> with detector too, else b; the bucket is
\* visit // 100 % 1000 on three digits.
Refined(r, b) ==
    LET q == (r.visit \div 100) % 1000
        bucket == ToString(q \div 100) \o ToString((q \div 10) % 10)
                    \o ToString(q % 10)
    IN IF "tract" \in r.dims
       THEN (IF r.dstype \in {"dia_object", "dia_source", "object"} THEN b
             ELSE b \o "/Tract" \o ToString(r.tract))
       ELSE IF "visit" \in r.dims
       THEN (IF "detector" \in r.dims
             THEN b \o "/" \o ToString(r.day_obs) \o "/" \o bucket
             ELSE b \o "/" \o ToString(r.day_obs))
       ELSE b

\* C16 as stated: the path of a ref is its base refined by the dimensions:
\* base/Tract<N>, base/<day_obs>, base/<day_obs>/<bucket> or the base
\* unchanged.
C16_RefinedBase ==
    \A n \in Classified :
        harness.paths[n] = Refined(harness.refs[n], harness.bases[n])

\* C16, amended: the Rucio dataset of a ref is Dataset/ followed by its
\* base refined by the dimensions: tract before visit, the exempt types
\* left at their base, the bucket on three digits.
C16_RefinedDataset ==
    \A n \in Classified :
        harness.paths[n]
          = "Dataset/" \o Refined(harness.refs[n], harness.bases[n])

\* A ref of visit 1234 with {visit, detector} and one of the same type with
\* all three dimensions have been classified.
C16_Witness ==
    /\ harness.kind = "classify" /\ harness.n = 2
    /\ harness.refs[1].dims = {"visit", "detector"}
    /\ harness.refs[1].visit = 1234
    /\ harness.refs[2].dims = {"tract", "visit", "detector"}
    /\ harness.refs[1].dstype = "flat"

\* C17: a ref gets the base of the first ref of its (type, massive) pair
\* that was classified, whatever its own run, and the entry of dsmap for
\* the pair keeps that base from then on.
C17_CacheAuthority ==
    \A n \in Classified :
        LET key == dsmap_key(harness.refs[n])
            first == CHOOSE m \in 1..n :
                        /\ dsmap_key(harness.refs[m]) = key
                        /\ \A k \in 1..(m - 1) : dsmap_key(harness.refs[k]) # key
        IN /\ harness.bases[n] = harness.bases[first]
           /\ key \in DOMAIN harness.dsmap
           /\ harness.dsmap[key] = harness.bases[first]

\* A flat of a calibration run, then a flat of a science run with the same
\* dimensions: both have the base Calibration.
C17_Witness ==
    /\ harness.kind = "classify" /\ harness.n = 2
    /\ harness.refs[1].dstype = "flat"
    /\ harness.refs[1].run = Calib /\ harness.refs[2].run = Science
    /\ dsmap_key(harness.refs[1]) = dsmap_key(harness.refs[2])
    /\ harness.bases = <<"Calibration", "Calibration">>

\* The call that precedes the call n of process p, the earlier invocations
\* of the same retried call left aside; 0 when there is none.
QueryBefore(p, n) ==
    LET c == proc[p].calls
        before == {m \in 1..(n - 1) : c[m].op # c[n].op}
    IN IF before = {} THEN 0
       ELSE CHOOSE m \in before : \A k \in before : k <= m

\* Every add call of a process that is not in dry-run follows the query of
\* its flush, and passes no name the query has reported.
QueriedAndFiltered ==
    \A p \in Procs :
        ~config[p].dry_run
        => LET s == proc[p]
               c == s.calls
               last == Len(c)
           IN /\ \A n \in 1..last :
                    c[n].op \in {"add_replicas", "add_files_to_dataset"}
                    => LET m == QueryBefore(p, n)
                       IN /\ m > 0
                          /\ c[m].outcome = "ok"
                          /\ c[m].final = c[n].final
                          /\ c[n].op = "add_replicas"
                             => (c[m].op = "list_replicas" /\ c[n].files \subseteq c[m].files)
                          /\ c[n].op = "add_files_to_dataset"
                             => (c[m].op = "list_content" /\ c[m].name = c[n].name)
              /\ s.pc = "add_replicas" => names_of(s.files) \cap s.existing_names = {}
              /\ s.pc = "add_files_to_dataset"
                 => names_of(s.needed) \cap s.existing_names = {}
              /\ (last > 0 /\ c[last].op \in {"add_replicas", "add_files_to_dataset"})
                 => c[last].files \cap s.existing_names = {}

\* A step in which an add call made in the loop returns leaves the pending
\* list of that call empty.
ClearedByFlush ==
    \A p \in Procs :
        LET c == proc'[p].calls
            last == Len(c)
        IN (/\ last = Len(proc[p].calls) + 1
            /\ c[last].op \in {"add_replicas", "add_files_to_dataset"}
            /\ c[last].outcome = "ok" /\ ~c[last].final)
           => IF c[last].op = "add_replicas" THEN proc'[p].files = <<>>
              ELSE proc'[p].rucio_datasets[c[last].name] = <<>>

EmptyBetweenTypes ==
    \A p \in Procs :
        (/\ proc[p].pc = "for_dstype"
         /\ proc[p].i <= Len(proc[p].dataset_type_list)
         /\ ~config[p].dry_run)
        => /\ proc[p].files = <<>>
           /\ \A d \in DOMAIN proc[p].rucio_datasets :
                 proc[p].rucio_datasets[d] = <<>>

\* A DID leaves files only once it has been in the files of a
\* list_replicas call.
NoneDiscarded ==
    \A p \in Procs :
        ~config[p].dry_run
        => \A name \in names_of(proc[p].files) \ names_of(proc'[p].files) :
              \E c \in Range(proc'[p].calls) :
                  c.op = "list_replicas" /\ c.outcome = "ok" /\ name \in c.files

\* C19: when the refs of a dataset type have all been handled, the pending
\* replicas and the pending files of every dataset are flushed and the
\* lists are empty before the next dataset type starts; no pending DID is
\* dropped without having been flushed.
C19_FlushPerType == []EmptyBetweenTypes /\ [][NoneDiscarded]_vars

\* C20: a process whose get_did has raised DataIdentifierNotFound calls
\* add_dataset next, and when add_dataset raises
\* DataIdentifierAlreadyExists, another shard having created the dataset in
\* between, the process goes on: it sets up the dataset and adds files to
\* it, and does not end on that exception.
C20_RaceSafeCreate ==
    \A p \in Procs :
        LET c == proc[p].calls
        IN /\ \A n \in 1..Len(c) :
                 /\ (c[n].op = "get_did" /\ c[n].outcome = "DataIdentifierNotFound")
                    => IF n < Len(c)
                       THEN c[n + 1].op = "add_dataset" /\ c[n + 1].name = c[n].name
                       ELSE proc[p].pc = "add_dataset"
                 /\ (c[n].op = "add_dataset"
                     /\ c[n].outcome = "DataIdentifierAlreadyExists")
                    => /\ c[n].name \in Touched(p)
                       /\ proc[p].n_files[c[n].name] >= 1
           /\ proc[p].fault # "DataIdentifierAlreadyExists"
           /\ proc[p].pc = "aborted" => proc[p].fault = "NameError"

\* Two shards have found the same dataset missing; the add_dataset of one
\* has raised DataIdentifierAlreadyExists, and both have run to their end
\* with their file in the content of the dataset.
C20_Witness ==
    /\ \A p \in {1, 2} : proc[p].pc = "done"
    /\ \A p \in {1, 2} : \E c \in CallsOf(p) :
          c.op = "get_did" /\ c.outcome = "DataIdentifierNotFound"
                           /\ c.name = "Dataset/flat"
    /\ \E p \in {1, 2} : \E c \in CallsOf(p) :
          /\ c.op = "add_dataset" /\ c.name = "Dataset/flat"
          /\ c.outcome = "DataIdentifierAlreadyExists"
    /\ Cardinality({x \in rucio.content : x[1] = "Dataset/flat"}) = 2

RECURSIVE refs_in_order(_)
\* The refs one process without --njobs handles, in the order of the two
\* loops: the dataset types that are not skipped, and their refs.
refs_in_order(types) ==
    IF types = <<>> THEN <<>>
    ELSE (IF direct_ingested(Head(types).name) THEN <<>>
          ELSE sorted(Head(types).refs))
           \o refs_in_order(Tail(types))

RECURSIVE routed(_, _, _)
\* The pairs <<dataset, name>> of the refs, mapped one after the other by
\* map_to_rucio from the dsmap given; the refs outside the root are skipped.
routed(refs, dsmap, acc) ==
    IF refs = <<>> THEN acc
    ELSE LET r == Head(refs)
         IN IF r.name = "" THEN routed(Tail(refs), dsmap, acc)
            ELSE routed(Tail(refs), dsmap_after(r, dsmap),
                        acc \cup {<<map_to_rucio(r, dsmap), r.name>>})

\* The content of the datasets after one run without --njobs on an empty
\* server.
UnshardedContent == routed(refs_in_order(sorted(catalog)), EmptyMap, {})

\* C21: with njobs = k >= 2 processes of distinct job numbers on the same
\* sorted lists, under every interleaving, no name is inserted twice as a
\* replica or as a file of a dataset, and when all have run to their end
\* the content of every dataset is the content one process without --njobs
\* gives it.
C21_ShardsAsOne ==
    /\ NoNameInsertedTwice
    /\ (/\ \A p \in Procs : proc[p].pc = "done"
        /\ \A p \in Procs : config[p].njobs >= 2 /\ ~config[p].dry_run)
       => rucio.content = UnshardedContent

\* The replicas one run without shards adds on an empty server: the files
\* pending after the loops are those of the last dataset type handled.
UnshardedReplicas ==
    LET types == SelectSeq(sorted(catalog),
                           LAMBDA t : ~direct_ingested(t.name))
    IN IF types = <<>> THEN {}
       ELSE {r.name : r \in {x \in Range(types[Len(types)].refs) : x.name # ""}}

\* The server holds what one uninterrupted run leaves on it, and no more
\* than that and what it held before.
AsUninterrupted ==
    /\ UnshardedContent \subseteq rucio.content
    /\ rucio.content \subseteq UnshardedContent \cup UsedRucio.content
    /\ UnshardedReplicas \subseteq rucio.replicas
    /\ rucio.replicas \subseteq UnshardedReplicas \cup UsedRucio.replicas

\* After a run that has ended, and after the rerun of a run that was ended
\* by a fault of the services, the server is as after one uninterrupted
\* run; no name is inserted twice.
Resumed ==
    /\ NoNameInsertedTwice
    /\ ~config[1].dry_run
       => /\ (proc[1].pc = "done" /\ proc[2].pc = "off") => AsUninterrupted
          /\ (/\ proc[1].pc = "aborted"
              /\ proc[1].fault \in {"RucioException", "RuntimeError"}
              /\ proc[2].pc = "done")
             => AsUninterrupted

\* No step takes a replica or a file of a dataset away from the server.
Kept ==
    /\ rucio.replicas \subseteq rucio'.replicas
    /\ rucio.content \subseteq rucio'.content
    /\ rucio.dids \subseteq rucio'.dids

\* C22: when a run is ended by a fault of the services at a remote call,
\* what it has inserted stays on the server, and a rerun with the same
\* arguments that runs to its end leaves the replicas and the content of
\* every dataset as an uninterrupted run leaves them, and inserts no name
\* again.
C22_Resumable == []Resumed /\ [][Kept]_vars

\* The services went down after the first run had added its replica: the
\* run ended with RuntimeError in add_files_to_dataset; the rerun has found
\* the replica, has added the file to its dataset and has ended.
C22_Witness ==
    /\ proc[1].pc = "aborted" /\ proc[1].fault = "RuntimeError"
    /\ proc[2].pc = "done" /\ ~config[2].dry_run
    /\ \E x \in Inserts("add_replicas") :
          x[1] = 1 /\ proc[1].calls[x[2]].files # {}
    /\ \A x \in Inserts("add_files_to_dataset") : x[1] = 2
    /\ \E x \in Inserts("add_files_to_dataset") :
          proc[2].calls[x[2]].files # {}
    /\ \A x \in Inserts("add_replicas") :
          x[1] = 2 => proc[2].calls[x[2]].files = {}

\* C23: a file that cannot be read is reported and skipped: its OSError
\* does not end the process, which passes on to the files after it.
C23_IOFaultSkipped ==
    \A p \in Procs :
        /\ proc[p].fault # "OSError"
        /\ (proc[p].pc \in {"done", "aborted"} /\ ~config[p].dry_run)
           => \A r \in ShardedRefs : r.id \in proc[p].seen

\* The refs of the collection that lie outside the root of the datastore.
Outside == {r \in CatalogRefs : r.name = ""}

\* Nothing of a ref outside the root is pending, counted or sent.
OutsideNowhere ==
    \A p \in Procs :
        /\ \A d \in PendingDids(p) : d.name # ""
        /\ \A c \in CallsOf(p) : "" \notin c.files

\* The step in which p passes a ref outside the root changes nothing of p
\* but its place in ref_list, and nothing of the server.
SkipIsFrame ==
    \A p \in Procs :
        (\E r \in Outside : r.id \in proc'[p].seen \ proc[p].seen)
        => /\ proc'[p] = [proc[p] EXCEPT !.j = @ + 1, !.seen = proc'[p].seen]
           /\ proc'[p].pc = "for_ref"
           /\ rucio' = rucio

\* C24: a ref outside the root is skipped without error and leaves
\* everything as it was: it is not classified, no dataset is looked up or
\* created for it, and files, the lists of rucio_datasets, n_files and
\* n_bytes do not change.
C24_OutsideRootSkip == []OutsideNowhere /\ [][SkipIsFrame]_vars

\* A process has passed a ref outside the root, after having collected a
\* file for a dataset, and has come to its end.
C24_Witness ==
    \E p \in Procs :
        /\ proc[p].pc = "done"
        /\ \E r \in Outside : r.id \in proc[p].seen
        /\ \E r \in Handled(p) : r.id < 5
        /\ \A d \in DOMAIN proc[p].n_files : proc[p].n_files[d] = Cardinality(Handled(p))

\* The refs of the types the claim names: raw, guider_raw, the_monster_*.
RawIngested ==
    {r \in CatalogRefs :
        r.dstype \in {"raw", "guider_raw"} \/ startswith(r.dstype, "the_monster_")}

\* C25: for the dataset types raw, guider_raw and the_monster_* the
\* process queries no refs and makes no remote call; no file of such a type
\* is in files, in a list of rucio_datasets or in the arguments of a call,
\* none has passed the shard filter, and no dataset under
\* Dataset/ReferenceCatalog is met or created.
C25_RawIngestExcluded ==
    \A p \in Procs :
        /\ \A c \in CallsOf(p) :
              /\ c.op = "query_datasets" => \A r \in RawIngested : c.name # r.dstype
              /\ \A r \in RawIngested : r.name \notin c.files
              /\ ~startswith(c.name, "Dataset/ReferenceCatalog")
        /\ \A r \in RawIngested :
              /\ r.id \notin proc[p].seen
              /\ \A d \in PendingDids(p) : d.name # r.name
        /\ \A d \in Touched(p) \cup rucio.dids :
              ~startswith(d, "Dataset/ReferenceCatalog")
        /\ \A d \in DOMAIN proc[p].n_files :
              proc[p].n_files[d] <= Cardinality(Handled(p) \ RawIngested)

\* A process has gone through a collection that holds a reference catalog
\* and another directly ingested file beside a file it has registered.
C25_Witness ==
    \E p \in Procs :
        /\ proc[p].pc = "done"
        /\ ~config[p].dry_run
        /\ \E r \in RawIngested : startswith(r.dstype, "the_monster_")
        /\ \E r \in RawIngested : r.dstype \in {"raw", "guider_raw"}
        /\ \E c \in CallsOf(p) : c.op = "add_files_to_dataset" /\ c.files # {}

\* The files of p's slice that are in the content of the dataset d.
FlushedInto(p, d) == {r \in Handled(p) : <<d, r.name>> \in rucio.content}

\* The datasets of the lines p has logged after the loops, in their order.
ReportedPaths(p) == [n \in 1..Len(proc[p].reported) |-> proc[p].reported[n][1]]

\* C26: n_files of a dataset starts at 0 and counts a file only once the
\* file has been added to the dataset: at every point it is at most the
\* number of files of the dataset whose add has returned; a process that
\* runs to its end logs the counters of each dataset it met exactly once.
C26_CountersTrackRegistered ==
    \A p \in Procs :
        /\ \A d \in DOMAIN proc[p].n_files :
              proc[p].n_files[d] <= Cardinality(FlushedInto(p, d))
        /\ proc[p].pc = "done" => ReportedPaths(p) = proc[p].ds_order

\* The adds of a full list of d that have returned to p inside the loop:
\* each is followed by rucio_datasets[d] = [].
FullFlushes(p, d) ==
    {n \in 1..Len(proc[p].calls) :
        LET c == proc[p].calls[n]
        IN c.op = "add_files_to_dataset" /\ c.name = d /\ c.outcome = "ok" /\ ~c.final}

\* n_files[d] counts the DIDs appended to rucio_datasets[d], those of the
\* lists already sent and cleared and those of the list that is pending.
CountsAppended(p) ==
    \A d \in DOMAIN proc[p].n_files :
        IF config[p].dry_run
        THEN proc[p].n_files[d] >= Len(proc[p].rucio_datasets[d])
        ELSE proc[p].n_files[d] = dataset_batch * Cardinality(FullFlushes(p, d))
                                   + Len(proc[p].rucio_datasets[d])

\* C26 as the code has it: n_files of a dataset starts at 0 and counts a
\* file when its DID is appended to the list of the dataset, before the
\* list is sent; when a process not in dry-run has run to its end every
\* file counted is in the content of its dataset; a process that runs to
\* its end logs the counters of each dataset it met exactly once.
C26_CountersTrackAppended ==
    \A p \in Procs :
        /\ DOMAIN proc[p].n_files = Touched(p)
        /\ CountsAppended(p)
        /\ (proc[p].pc = "done" /\ ~config[p].dry_run)
           => \A d \in Touched(p) : proc[p].n_files[d] <= Cardinality(FlushedInto(p, d))
        /\ proc[p].pc = "done"
           => /\ ReportedPaths(p) = proc[p].ds_order
              /\ \A n \in 1..Len(proc[p].reported) :
                    LET d == proc[p].reported[n][1]
                    IN proc[p].reported[n] = <<d, proc[p].n_files[d], proc[p].n_bytes[d]>>

\* A process not in dry-run has sent a full list, and counts beside its
\* files a file that is pending and in no dataset yet.
C26_Witness ==
    \E p \in Procs : \E d \in Touched(p) :
        /\ ~config[p].dry_run
        /\ FullFlushes(p, d) # {}
        /\ proc[p].rucio_datasets[d] # <<>>
        /\ proc[p].pc = "for_ref"
        /\ proc[p].n_files[d] > Cardinality(FlushedInto(p, d))

\* C27: when func raises an exception retry catches on its first m < 10
\* invocations and returns on the next, retry invokes it exactly m + 1
\* times and returns, raising nothing; func is not invoked after it has
\* returned.
C27_ReturnsOnFirstSuccess ==
    (/\ harness.kind = "retry"
     /\ harness.exc \in {"InterfaceError", "OperationalError"} \cup RucioExceptions
     /\ harness.fails < max_retries)
    => /\ harness.invoked <= harness.fails + 1
       /\ harness.status # "raised" /\ harness.fault = "none"
       /\ harness.status = "returned" <=> harness.invoked = harness.fails + 1
       /\ harness.status = "loop" => ENABLED RetryInvoke

\* retry has returned on the tenth invocation of a func that raised a
\* RucioException nine times.
C27_Witness ==
    /\ harness.kind = "retry"
    /\ harness.exc \in RucioExceptions
    /\ harness.fails = max_retries - 1
    /\ harness.status = "returned"
    /\ harness.invoked = max_retries

\* The positions in the calls of p of the calls of op on the dataset d.
CallsOn(p, op, d) ==
    {n \in 1..Len(proc[p].calls) : proc[p].calls[n].op = op /\ proc[p].calls[n].name = d}

\* The dataset d was looked up by p before position n, and created in
\* between when the lookup raised DataIdentifierNotFound.
CheckedBefore(p, d, n) ==
    \E m \in CallsOn(p, "get_did", d) :
        /\ m < n
        /\ proc[p].calls[m].outcome \in {"ok", "DataIdentifierNotFound"}
        /\ proc[p].calls[m].outcome = "DataIdentifierNotFound"
           => /\ m + 1 < n
              /\ m + 1 \in CallsOn(p, "add_dataset", d)
              /\ proc[p].calls[m + 1].outcome \in {"ok", "DataIdentifierAlreadyExists"}

\* C28: not in dry-run, a process looks a dataset up (and creates it when
\* it is not found) before any add_files_to_dataset on it, does so once for
\* a dataset, and does so when the first file is mapped to it: before the
\* dataset gets its list and its counters.
C28_DatasetBeforeMembers ==
    \A p \in Procs :
        ~config[p].dry_run
        => /\ \A n \in 1..Len(proc[p].calls) :
                 proc[p].calls[n].op \in {"list_content", "add_files_to_dataset"}
                 => CheckedBefore(p, proc[p].calls[n].name, n)
           /\ \A d \in Touched(p) : CheckedBefore(p, d, Len(proc[p].calls) + 1)
           /\ \A c \in CallsOf(p) :
                 c.op \in {"get_did", "add_dataset"}
                 => /\ Cardinality(CallsOn(p, c.op, c.name)) = 1
                    /\ c.op = "add_dataset" => CallsOn(p, "get_did", c.name) # {}

\* A process has added two files to a dataset it had not found and has
\* created, and has come to its end.
C28_Witness ==
    \E p \in Procs : \E d \in Touched(p) :
        /\ proc[p].pc = "done"
        /\ \E m \in CallsOn(p, "get_did", d) :
              proc[p].calls[m].outcome = "DataIdentifierNotFound"
        /\ \E m \in CallsOn(p, "add_dataset", d) : proc[p].calls[m].outcome = "ok"
        /\ \E m \in CallsOn(p, "add_files_to_dataset", d) :
              Cardinality(proc[p].calls[m].files) = 2

\* C29: in a process every add_files_to_dataset on a dataset comes before
\* the close of the dataset: none follows it, and what the process holds
\* for the dataset when it closes it has been sent by the add that follows
\* the loops.
C29_NoAddAfterClose ==
    \A p \in Procs : \A n \in 1..Len(proc[p].calls) :
        LET c == proc[p].calls[n]
        IN c.op = "close"
           => /\ \A m \in CallsOn(p, "add_files_to_dataset", c.name) : m < n
              /\ \A m \in CallsOn(p, "list_content", c.name) : m < n
              /\ proc[p].rucio_datasets[c.name] # <<>>
                 => \E m \in CallsOn(p, "add_files_to_dataset", c.name) :
                       /\ m < n
                       /\ proc[p].calls[m].outcome = "ok"
                       /\ proc[p].calls[m].final
                       /\ proc[p].calls[m].pending = Len(proc[p].rucio_datasets[c.name])

\* A process has closed two datasets, each after the add of its files, and
\* has come to its end.
C29_Witness ==
    \E p \in Procs :
        /\ proc[p].pc = "done"
        /\ Cardinality(Touched(p)) = 2
        /\ \A d \in Touched(p) :
              /\ \E m \in CallsOn(p, "close", d) : proc[p].calls[m].outcome = "ok"
              /\ \E m \in CallsOn(p, "add_files_to_dataset", d) :
                    proc[p].calls[m].files # {}

\* The entry of the corrections file main is at, when it is in its loop.
AtFile == harness.dids[harness.pos]

\* A pass of the loop changes the DID of its entry only, only when the
\* values of the DID are the old values of the entry, and then to the new
\* values; whatever else the database holds stays.
CompareAndSet ==
    (harness.kind = "update" /\ harness'.db # harness.db)
    => /\ harness.status = "loop" /\ harness.pos <= Len(harness.dids)
       /\ vals(harness.db[AtFile.name]) = AtFile.old
       /\ harness'.db = [harness.db EXCEPT ![AtFile.name] = update_did(@, AtFile)]
       /\ harness'.writes = Append(harness.writes, <<harness.run, harness.pos>>)

\* update_did is called only when the values are the old values.
WritesOnlyOnOld ==
    (harness.kind = "update" /\ harness'.writes # harness.writes)
    => /\ harness.db[AtFile.name] # NoRow
       /\ vals(harness.db[AtFile.name]) = AtFile.old

\* The writes of the second run.
SecondWrites == {n \in 1..Len(harness.writes) : harness.writes[n][1] = 2}

\* C30 as stated: main sets the values of a DID only when they are the old
\* values of the correction, and a second run on the same file after a
\* first run without a failure updates nothing.
C30_CompareAndSet ==
    /\ [][CompareAndSet /\ WritesOnlyOnOld]_vars
    /\ []((harness.kind = "update" /\ harness.first = "ok") => SecondWrites = {})

\* No two entries of the file are for the same DID, and no entry has new
\* values that are its old values.
PlainFile ==
    /\ \A m, n \in 1..Len(harness.dids) :
          harness.dids[m].name = harness.dids[n].name => m = n
    /\ \A n \in 1..Len(harness.dids) :
          vals(harness.dids[n]) # harness.dids[n].old

\* C30 as the code has it: main sets the values of a DID only when they
\* are the old values of the correction; a second run on the same file
\* after a first run without a failure updates nothing when the file has
\* one entry for a DID and no entry whose new values are its old values.
C30_CompareAndSetPlain ==
    /\ [][CompareAndSet /\ WritesOnlyOnOld]_vars
    /\ []((harness.kind = "update" /\ harness.first = "ok" /\ PlainFile)
          => SecondWrites = {})

\* The second run has gone through a file of two DIDs that the first run
\* has updated, one of them in bytes only, and has updated none.
C30_Witness ==
    /\ harness.kind = "update"
    /\ harness.first = "ok" /\ harness.status = "done"
    /\ PlainFile /\ Len(harness.dids) = 2
    /\ Len(harness.writes) = 2
    /\ \E n \in 1..2 : harness.dids[n].old.adler32 = harness.dids[n].adler32
    /\ SecondWrites = {}
====
